---- MODULE Spec2Model ----
(***************************************************************************)
(* EEQ Syllabus Processor: the two Streamlit scripts app_streamlit_2.py    *)
(* (fixed Dropbox folder) and app_streamlit_3.py (folder navigation and    *)
(* local uploads).  A script pass is modelled statement group by statement *)
(* group; Dropbox, the prompt file, the extractors and the generation      *)
(* service answer nondeterministically.  Python strings are sequences of   *)
(* one-character strings.                                                  *)
(***************************************************************************)
EXTENDS Integers, Sequences, FiniteSets, TLC

\* ------------------------------------------------------------------------
\* Bounds of the model
\* ------------------------------------------------------------------------
MaxUploads == 1

MaxPageSize == 2

\* ------------------------------------------------------------------------
\* Python str primitives
\* ------------------------------------------------------------------------
\* the character U+2014 (em dash), which the module's ASCII strings cannot hold
EmDash == "U+2014"

Upper == <<"A", "B", "C", "D", "E", "F", "O", "P", "Q", "X">>

LowerOf == <<"a", "b", "c", "d", "e", "f", "o", "p", "q", "x">>

\* characters in code point order (the ones the model's names use)
CodePointOrder == <<"\n", " ", "-", ".", "/", "1", "A", "B", "C", "D", "E", "F", "O",
  "P", "Q", "X", "a", "b", "c", "d", "e", "f", "g", "h", "i", "n", "o", "p", "q",
  "r", "s", "t", "u", "x", "y", "z", EmDash>>

Whitespace == {" ", "\n", "\t", "\r"}

Ord(c) == CHOOSE i \in 1..Len(CodePointOrder) : CodePointOrder[i] = c

LowerChar(c) == IF \E i \in 1..Len(Upper) : Upper[i] = c
    THEN LowerOf[CHOOSE i \in 1..Len(Upper) : Upper[i] = c]
    ELSE c

\* str.lower()
Lower(s) == [i \in 1..Len(s) |-> LowerChar(s[i])]

\* str.endswith(suf)
EndsWith(s, suf) ==
    /\ Len(s) >= Len(suf)
    /\ SubSeq(s, Len(s) - Len(suf) + 1, Len(s)) = suf

\* str.startswith(pre)
StartsWith(s, pre) ==
    /\ Len(s) >= Len(pre)
    /\ SubSeq(s, 1, Len(pre)) = pre

RECURSIVE LStrip(_, _)
LStrip(s, chars) == IF s # <<>> /\ Head(s) \in chars THEN LStrip(Tail(s), chars) ELSE s

RECURSIVE RStrip(_, _)
RStrip(s, chars) == IF s # <<>> /\ s[Len(s)] \in chars
    THEN RStrip(SubSeq(s, 1, Len(s) - 1), chars)
    ELSE s

\* str.strip()
Strip(s) == RStrip(LStrip(s, Whitespace), Whitespace)

\* str.split(sep) for a one-character separator
RECURSIVE SplitFrom(_, _, _)
SplitFrom(s, sep, cur) == IF s = <<>> THEN <<cur>>
    ELSE IF Head(s) = sep THEN <<cur>> \o SplitFrom(Tail(s), sep, <<>>)
    ELSE SplitFrom(Tail(s), sep, Append(cur, Head(s)))

Split(s, sep) == SplitFrom(s, sep, <<>>)

\* sep.join(parts)
RECURSIVE Join(_, _)
Join(sep, parts) == IF parts = <<>> THEN <<>>
    ELSE IF Len(parts) = 1 THEN parts[1]
    ELSE parts[1] \o sep \o Join(sep, Tail(parts))

\* "".join(parts), the += loop of the pdf extractor
RECURSIVE Concat(_)
Concat(parts) == IF parts = <<>> THEN <<>> ELSE Head(parts) \o Concat(Tail(parts))

\* Python's < on str (lexicographic by code point)
RECURSIVE StrLess(_, _)
StrLess(a, b) == IF b = <<>> THEN FALSE
    ELSE IF a = <<>> THEN TRUE
    ELSE IF Head(a) = Head(b) THEN StrLess(Tail(a), Tail(b))
    ELSE Ord(Head(a)) < Ord(Head(b))

\* list.sort(key=lambda x: x[0].lower()): stable, ascending
RECURSIVE InsertByKey(_, _)
InsertByKey(sorted, x) == IF sorted = <<>> THEN <<x>>
    ELSE IF StrLess(Lower(x[1]), Lower(Head(sorted)[1])) THEN <<x>> \o sorted
    ELSE <<Head(sorted)>> \o InsertByKey(Tail(sorted), x)

RECURSIVE SortByLowerName(_)
SortByLowerName(l) == IF l = <<>> THEN <<>>
    ELSE InsertByKey(SortByLowerName(SubSeq(l, 1, Len(l) - 1)), l[Len(l)])

\* ------------------------------------------------------------------------
\* Program constants
\* ------------------------------------------------------------------------
DEFAULT_START_FOLDER == <<"/">>

TARGET_FOLDER == <<"/", "C", "a", "t", "e", "g", "o", "r", "y", " ", "1", " ", "-", " ",
  "E", "E", "Q", " ", "P", "r", "e", "p", "a", "r", "a", "t", "i", "o", "n">>

PromptSeparator == <<"\n", "\n", "-", "-", "-", "\n", "\n", "N", "o", "w", " ", "a", "n",
  "a", "l", "y", "z", "e", " ", "t", "h", "e", " ", "f", "o", "l", "l", "o", "w", "i", "n",
  "g", " ", "c", "o", "u", "r", "s", "e", " ", "s", "y", "l", "l", "a", "b", "u", "s", " ",
  "a", "n", "d", " ", "g", "e", "n", "e", "r", "a", "t", "e", " ", "t", "h", "e", " ", "E",
  "E", "Q", " ", "e", "x", "t", "r", "a", "c", "t", "i", "o", "n", " ", "i", "n", " ", "t",
  "h", "e", " ", "s", "a", "m", "e", " ", "f", "o", "r", "m", "a", "t", " ", "a", "s", " ",
  "a", "b", "o", "v", "e", ".", "\n", "\n", "C", "o", "u", "r", "s", "e", " ", "S", "y",
  "l", "l", "a", "b", "u", "s", ":", "\n", "\n">>

HeadingPrefix == <<"E", "E", "Q", " ", "O", "u", "t", "p", "u", "t", " ", "f", "o", "r", " ">>

ParentOption == <<".", ".", " ", "(", "p", "a", "r", "e", "n", "t", " ", "d", "i", "r",
  "e", "c", "t", "o", "r", "y", ")">>

OptionDash == <<" ", EmDash, " ">>

DocxSuffix == <<".", "d", "o", "c", "x">>

PdfSuffix == <<".", "p", "d", "f">>

\* ------------------------------------------------------------------------
\* The Dropbox account the scripts run against
\* ------------------------------------------------------------------------
CategoryName == <<"C", "a", "t", "e", "g", "o", "r", "y", " ", "1", " ", "-", " ",
  "E", "E", "Q", " ", "P", "r", "e", "p", "a", "r", "a", "t", "i", "o", "n">>

Folder(n, parent) == [tag |-> "folder", name |-> n, parent |-> parent,
    path_lower |-> parent \o <<"/">> \o Lower(n), is_downloadable |-> TRUE]

File(n, parent, dl) == [tag |-> "file", name |-> n, parent |-> parent,
    path_lower |-> parent \o <<"/">> \o Lower(n), is_downloadable |-> dl]

\* metadata entries in the order the provider lists them
DropboxEntries == <<
    File(<<"b", ".", "P", "D", "F">>, <<>>, TRUE),
    Folder(<<"a", EmDash>>, <<>>),
    File(<<"g", ".", "g", "d", "o", "c">>, <<>>, FALSE),
    Folder(<<"B">>, <<>>),
    File(<<"a", ".", "d", "o", "c", "x">>, <<>>, TRUE),
    Folder(CategoryName, <<>>),
    Folder(<<"c">>, <<"/", "b">>),
    File(<<"c", ".", "p", "d", "f">>, <<"/", "b">>, TRUE),
    File(<<"t", ".", "d", "o", "c", "x">>, Lower(TARGET_FOLDER), TRUE),
    File(<<"s", ".", "p", "d", "f">>, Lower(TARGET_FOLDER), TRUE) >>

DocxBytes(paragraphs) == [fmt |-> "docx", parts |-> paragraphs]

PdfBytes(pages) == [fmt |-> "pdf", parts |-> pages]

OtherBytes == [fmt |-> "other", parts |-> <<>>]

\* the bytes files_download returns for a path
Content(path) ==
    IF path = <<"/", "b", ".", "p", "d", "f">> THEN PdfBytes(<< <<"p", "\n">>, <<"q">> >>)
    ELSE IF path = <<"/", "a", ".", "d", "o", "c", "x">> THEN DocxBytes(<< <<"h", "i">>, <<"y">> >>)
    ELSE IF path = Lower(TARGET_FOLDER) \o <<"/", "t", ".", "d", "o", "c", "x">>
        THEN DocxBytes(<< <<" ", "t">> >>)
    ELSE IF path = Lower(TARGET_FOLDER) \o <<"/", "s", ".", "p", "d", "f">>
        THEN PdfBytes(<< <<"s">> >>)
    ELSE OtherBytes

\* Dropbox paths are case-insensitive; "" is the root
PathExists(api_path) ==
    \/ api_path = <<>>
    \/ \E i \in 1..Len(DropboxEntries) :
          /\ DropboxEntries[i].tag = "folder"
          /\ DropboxEntries[i].path_lower = Lower(api_path)

IsUnder(e, api_path) == StartsWith(e.path_lower, Lower(api_path) \o <<"/">>)

\* all entries files_list_folder / files_list_folder_continue hand out
ListedEntries(api_path, recursive) ==
    SelectSeq(DropboxEntries, LAMBDA e :
        IF recursive THEN IsUnder(e, api_path) ELSE e.parent = Lower(api_path))

RECURSIVE Chunk(_, _)
Chunk(entries, size) == IF Len(entries) <= size THEN <<entries>>
    ELSE <<SubSeq(entries, 1, size)>> \o Chunk(SubSeq(entries, size + 1, Len(entries)), size)

\* the pages of one listing: result.entries, then one page per continuation
files_list_folder(api_path, recursive, size) == Chunk(ListedEntries(api_path, recursive), size)

ErrorKinds == {"AuthError", "ApiError", "Exception"}

Ok(v) == [ok |-> TRUE, value |-> v, error |-> "none"]

Fail(kind) == [ok |-> FALSE, value |-> <<>>, error |-> kind]

\* ------------------------------------------------------------------------
\* Functions of the scripts
\* ------------------------------------------------------------------------
to_api_path(display_path) == IF Strip(display_path) = <<"/">> THEN <<>> ELSE display_path

\* isinstance(entry, FolderMetadata), or an entry that has is_downloadable and it is False
IsFolderEntry(entry) ==
    \/ entry.tag = "folder"
    \/ /\ entry.tag = "file"
       /\ ~entry.is_downloadable

FolderTuples(entries) == [i \in 1..Len(entries) |-> <<entries[i].name, entries[i].path_lower>>]

\* variant: result.has_more ignored, only the first page is read
CollectFolders_FirstPage(pages, i, acc, failAt, kind) ==
    IF i = failAt THEN Fail(kind)
    ELSE Ok(SortByLowerName(acc \o FolderTuples(SelectSeq(pages[i], IsFolderEntry))))

\* the while True loop over result pages; failAt = the call that raises (0: none)
RECURSIVE CollectFolders(_, _, _, _, _)
CollectFolders(pages, i, acc, failAt, kind) ==
    IF i = failAt THEN Fail(kind)
    ELSE LET got == acc \o FolderTuples(SelectSeq(pages[i], IsFolderEntry))
         IN IF i < Len(pages) THEN CollectFolders(pages, i + 1, got, failAt, kind)
            ELSE Ok(SortByLowerName(got))

list_dropbox_folders(folder_path, size, failAt, kind) ==
    LET api_path == to_api_path(folder_path)
    IN IF ~PathExists(api_path) THEN Fail("ApiError")
       ELSE CollectFolders(files_list_folder(api_path, FALSE, size), 1, <<>>, failAt, kind)

IsSyllabusEntry(entry) ==
    /\ entry.tag = "file"
    /\ \/ EndsWith(Lower(entry.name), PdfSuffix)
       \/ EndsWith(Lower(entry.name), DocxSuffix)

RECURSIVE CollectFiles(_, _, _, _, _, _)
CollectFiles(pages, i, acc, failAt, kind, sorted) ==
    IF i = failAt THEN Fail(kind)
    ELSE LET got == acc \o FolderTuples(SelectSeq(pages[i], IsSyllabusEntry))
         IN IF i < Len(pages) THEN CollectFiles(pages, i + 1, got, failAt, kind, sorted)
            ELSE Ok(IF sorted THEN SortByLowerName(got) ELSE got)

\* app_streamlit_3: translated path, sorted result
list_dropbox_files(folder_path, size, failAt, kind) ==
    LET api_path == to_api_path(folder_path)
    IN IF ~PathExists(api_path) THEN Fail("ApiError")
       ELSE CollectFiles(files_list_folder(api_path, FALSE, size), 1, <<>>, failAt, kind, TRUE)

\* app_streamlit_2: path passed as is, result in provider order
list_dropbox_files_v2(folder_path, size, failAt, kind) ==
    IF ~PathExists(folder_path) THEN Fail("ApiError")
    ELSE CollectFiles(files_list_folder(folder_path, FALSE, size), 1, <<>>, failAt, kind, FALSE)

Range(seq) == {seq[i] : i \in 1..Len(seq)}

\* for name, path in files: if name in selected: download; failAt = the download that raises
RECURSIVE DownloadFrom(_, _, _, _, _, _)
DownloadFrom(fs, selected, out, n, failAt, kind) ==
    IF fs = <<>> THEN Ok(out)
    ELSE IF Head(fs)[1] \in selected
         THEN IF n + 1 = failAt THEN Fail(kind)
              ELSE DownloadFrom(Tail(fs), selected,
                      Append(out, [name |-> Head(fs)[1], content |-> Content(Head(fs)[2])]),
                      n + 1, failAt, kind)
         ELSE DownloadFrom(Tail(fs), selected, out, n, failAt, kind)

PathOfName(fs, n) == fs[CHOOSE i \in 1..Len(fs) : fs[i][1] = n][2]

\* variant: for name in selected_names, i.e. downloads in the order of the selection
RECURSIVE download_in_selection_order(_, _, _, _)
download_in_selection_order(fs, selected_names, failAt, kind) ==
    IF selected_names = <<>> THEN Ok(<<>>)
    ELSE IF failAt = 1 THEN Fail(kind)
    ELSE LET rest == download_in_selection_order(fs, Tail(selected_names), failAt - 1, kind)
         IN IF rest.ok
            THEN Ok(<<[name |-> Head(selected_names),
                       content |-> Content(PathOfName(fs, Head(selected_names)))]>> \o rest.value)
            ELSE rest

download_dropbox_files(fs, selected_names, failAt, kind) ==
    DownloadFrom(fs, Range(selected_names), <<>>, 0, failAt, kind)

\* python-docx raises on bytes that are not a .docx package
extract_text_from_docx_bytes(file_bytes) ==
    IF file_bytes.fmt = "docx" THEN Ok(Join(<<"\n">>, file_bytes.parts)) ELSE Fail("Exception")

\* fitz.open(filetype="pdf") raises on bytes that are not a PDF
extract_text_from_pdf_bytes(file_bytes) ==
    IF file_bytes.fmt = "pdf" THEN Ok(Concat(file_bytes.parts)) ELSE Fail("Exception")

UsesDocxExtractor(name) == EndsWith(Lower(name), DocxSuffix)

\* variant: base_prompt used without .strip()
BuildPrompt_NoStrip(base, syllabus) == base \o PromptSeparator \o syllabus

BuildPrompt(base, syllabus) == Strip(base) \o PromptSeparator \o syllabus

Section(filename, out) == <<
    [kind |-> "heading", level |-> 1, text |-> HeadingPrefix \o filename],
    [kind |-> "paragraph", level |-> 0, text |-> out],
    [kind |-> "page_break", level |-> 0, text |-> <<>>] >>

\* variant: results collected in a dict keyed by filename, the last output of a name wins
RECURSIVE write_output_to_word_ByName(_)
write_output_to_word_ByName(rs) == IF rs = <<>> THEN <<>>
    ELSE IF \E i \in 2..Len(rs) : rs[i][1] = Head(rs)[1]
         THEN write_output_to_word_ByName(Tail(rs))
         ELSE Section(Head(rs)[1], Head(rs)[2]) \o write_output_to_word_ByName(Tail(rs))

RECURSIVE write_output_to_word(_)
write_output_to_word(rs) == IF rs = <<>> THEN <<>>
    ELSE Section(Head(rs)[1], Head(rs)[2]) \o write_output_to_word(Tail(rs))

ParentOf(current) ==
    LET p == RStrip(current, {"/"})
        parent == IF p \in {<<>>, <<"/">>} THEN <<"/">>
                  ELSE Join(<<"/">>, SubSeq(Split(p, "/"), 1, Len(Split(p, "/")) - 1))
    IN IF parent = <<>> THEN <<"/">> ELSE parent

OptionOf(f) == f[1] \o OptionDash \o f[2]

Options(fs) == <<ParentOption>> \o [i \in 1..Len(fs) |-> OptionOf(fs[i])]

SelPathOf(ch) == Strip(Split(ch, EmDash)[Len(Split(ch, EmDash))])

OpenSelectedPath(current, ch) ==
    IF StartsWith(ch, <<".", ".">>) THEN ParentOf(current) ELSE SelPathOf(ch)

\* ------------------------------------------------------------------------
\* Inputs the environment can supply
\* ------------------------------------------------------------------------
\* paths typed into "Current path"
TypedPaths == {<<>>, <<"/">>, <<"/", "b">>, <<"/", "z">>}

\* local files the operator can drop on the uploader; its type=["pdf", "docx"]
\* filter is checked by the browser widget only, the script sees whatever arrives
UploadPool == {
    [name |-> <<"a", ".", "d", "o", "c", "x">>, content |-> DocxBytes(<< <<"u">> >>)],
    [name |-> <<"n", ".", "t", "x", "t">>, content |-> OtherBytes] }

\* contents Prompt.txt may have
PromptFiles == {<<" ", "X", "\n">>, <<"X", " ", "Y">>}

\* texts the generation service may answer with
Outputs == {<<"o", "1">>, <<"o", "2">>}

SeqsUpTo(S, n) == UNION {[1..k -> S] : k \in 0..n}

Distinct(seq) == \A i, j \in 1..Len(seq) : i # j => seq[i] # seq[j]

Names(fs) == [i \in 1..Len(fs) |-> fs[i][1]]

NoEvent == [kind |-> "none", arg |-> <<>>]

NoDoc == <<"no document">>

\* ------------------------------------------------------------------------
\* State
\* ------------------------------------------------------------------------
VARIABLES ver, pc, event, cwd, folders, files, rendered, messages,
    ms_options, selected_dropbox_files, uploaded_files,
    combined_inputs, base_prompt, results, idx, syllabus_text, full_prompt, output,
    progress, buf,
    requests, downloads, extractions, prompt_reads

widgets == <<ms_options, selected_dropbox_files, uploaded_files>>

locals == <<combined_inputs, base_prompt, results, idx, syllabus_text, full_prompt,
    output, progress, buf>>

logs == <<requests, downloads, extractions, prompt_reads>>

vars == <<ver, pc, event, cwd, folders, files, rendered, messages, widgets, locals, logs>>

FreshLocals ==
    /\ combined_inputs = <<>>
    /\ base_prompt = <<>>
    /\ results = <<>>
    /\ idx = 0
    /\ syllabus_text = <<>>
    /\ full_prompt = <<>>
    /\ output = <<>>
    /\ progress = <<0, 1>>
    /\ buf = NoDoc

FreshLogs ==
    /\ requests = <<>>
    /\ downloads = 0
    /\ extractions = <<>>
    /\ prompt_reads = 0

ResetLocals ==
    /\ combined_inputs' = <<>>
    /\ base_prompt' = <<>>
    /\ results' = <<>>
    /\ idx' = 0
    /\ syllabus_text' = <<>>
    /\ full_prompt' = <<>>
    /\ output' = <<>>
    /\ progress' = <<0, 1>>
    /\ buf' = NoDoc

ResetLogs ==
    /\ requests' = <<>>
    /\ downloads' = 0
    /\ extractions' = <<>>
    /\ prompt_reads' = 0

Init ==
    /\ ver \in {2, 3}
    /\ pc = "top"
    /\ event = NoEvent
    /\ cwd = (IF ver = 3 THEN DEFAULT_START_FOLDER ELSE TARGET_FOLDER)
    /\ folders = <<>>
    /\ files = <<>>
    /\ rendered = {}
    /\ messages = {}
    /\ ms_options = <<>>
    /\ selected_dropbox_files = <<>>
    /\ uploaded_files = <<>>
    /\ FreshLocals
    /\ FreshLogs

AtRest == pc \in {"done", "stopped"}

\* a widget event starts a new pass of the script from its first line
StartPass(ev) ==
    /\ pc' = "top"
    /\ event' = ev
    /\ folders' = <<>>
    /\ files' = <<>>
    /\ rendered' = {}
    /\ messages' = {}
    /\ ResetLocals
    /\ ResetLogs
    /\ UNCHANGED <<ver, cwd>>

\* st.stop() after st.error / st.warning, or an uncaught exception
Stop(msg) ==
    /\ pc' = "stopped"
    /\ messages' = messages \cup {msg}

\* the st.error of the except clause that caught the exception, per call site
ListErrorMessage(kind) == IF kind = "AuthError" THEN "error: authentication"
    ELSE IF kind = "ApiError" THEN "error: api"
    ELSE "error: listing"

DownloadErrorMessage(kind) == IF kind = "AuthError" THEN "error: authentication (download)"
    ELSE IF kind = "ApiError" THEN "error: api (download)"
    ELSE "error: download"

\* ------------------------------------------------------------------------
\* The operator's actions on the rendered widgets
\* ------------------------------------------------------------------------
ClickGo ==
    /\ AtRest
    /\ "go" \in rendered
    /\ \E new_path \in TypedPaths : StartPass([kind |-> "go", arg |-> new_path])
    /\ UNCHANGED widgets

ClickOpenSelected ==
    /\ AtRest
    /\ "open" \in rendered
    /\ \E choice \in Range(Options(folders)) : StartPass([kind |-> "open", arg |-> choice])
    /\ UNCHANGED widgets

PickFiles ==
    /\ AtRest
    /\ "multiselect" \in rendered
    /\ \E sel \in SeqsUpTo(Range(ms_options), Len(ms_options)) :
          /\ Distinct(sel)
          /\ sel # selected_dropbox_files
          /\ selected_dropbox_files' = sel
    /\ StartPass(NoEvent)
    /\ UNCHANGED <<ms_options, uploaded_files>>

UploadFiles ==
    /\ AtRest
    /\ "uploader" \in rendered
    /\ \E ups \in SeqsUpTo(UploadPool, MaxUploads) :
          /\ ups # uploaded_files
          /\ uploaded_files' = ups
    /\ StartPass(NoEvent)
    /\ UNCHANGED <<ms_options, selected_dropbox_files>>

ClickStart ==
    /\ AtRest
    /\ "start" \in rendered
    /\ StartPass([kind |-> "start", arg |-> <<>>])
    /\ UNCHANGED widgets

\* ------------------------------------------------------------------------
\* app_streamlit_3, Step 0: navigation
\* ------------------------------------------------------------------------
GoTarget(new_path) == IF new_path = <<>> THEN <<"/">> ELSE new_path

GoHandler ==
    /\ pc = "top"
    /\ ver = 3
    /\ IF event.kind = "go"
       THEN /\ cwd' = GoTarget(event.arg)
            /\ event' = NoEvent
            /\ pc' = "top"
            /\ rendered' = {}
       ELSE /\ pc' = "list_folders"
            /\ rendered' = rendered \cup {"go"}
            /\ UNCHANGED <<cwd, event>>
    /\ UNCHANGED <<ver, folders, files, messages, widgets, locals, logs>>

ListFolders ==
    /\ pc = "list_folders"
    /\ \E size \in 1..MaxPageSize, kind \in ErrorKinds :
       \E failAt \in 0..Len(files_list_folder(to_api_path(cwd), FALSE, size)) :
          LET r == list_dropbox_folders(cwd, size, failAt, kind)
          IN IF r.ok
             THEN /\ folders' = r.value
                  /\ pc' = "open"
                  /\ UNCHANGED messages
             ELSE /\ Stop(ListErrorMessage(r.error))
                  /\ UNCHANGED folders
    /\ UNCHANGED <<ver, event, cwd, files, rendered, widgets, locals, logs>>

OpenSelectedHandler ==
    /\ pc = "open"
    /\ IF event.kind = "open"
       THEN /\ cwd' = OpenSelectedPath(cwd, event.arg)
            /\ event' = NoEvent
            /\ pc' = "top"
            /\ rendered' = {}
            /\ folders' = <<>>
       ELSE /\ pc' = "list_files"
            /\ rendered' = rendered \cup {"open"}
            /\ UNCHANGED <<cwd, event, folders>>
    /\ UNCHANGED <<ver, files, messages, widgets, locals, logs>>

\* ------------------------------------------------------------------------
\* Step 1: list the files, render the selection widgets
\* ------------------------------------------------------------------------
RenderSelection(fs) ==
    /\ ms_options' = Names(fs)
    /\ selected_dropbox_files' = (IF Names(fs) = ms_options THEN selected_dropbox_files ELSE <<>>)

\* variant: the except clauses report the error but do not st.stop()
ListFiles_NoStop ==
    /\ pc = "list_files"
    /\ ver = 3
    /\ \E size \in 1..MaxPageSize, kind \in ErrorKinds :
       \E failAt \in 0..Len(files_list_folder(to_api_path(cwd), FALSE, size)) :
          LET r == list_dropbox_files(cwd, size, failAt, kind)
          IN /\ files' = r.value
             /\ RenderSelection(r.value)
             /\ rendered' = rendered \cup {"multiselect", "uploader", "start"}
             /\ pc' = "run"
             /\ messages' = (IF r.ok THEN messages
                             ELSE messages \cup {ListErrorMessage(r.error)})
    /\ UNCHANGED <<ver, event, cwd, folders, uploaded_files, locals, logs>>

ListFiles ==
    /\ pc = "list_files"
    /\ ver = 3
    /\ \E size \in 1..MaxPageSize, kind \in ErrorKinds :
       \E failAt \in 0..Len(files_list_folder(to_api_path(cwd), FALSE, size)) :
          LET r == list_dropbox_files(cwd, size, failAt, kind)
          IN IF r.ok
             THEN /\ files' = r.value
                  /\ RenderSelection(r.value)
                  /\ rendered' = rendered \cup {"multiselect", "uploader", "start"}
                  /\ pc' = "run"
                  /\ UNCHANGED messages
             ELSE /\ Stop(ListErrorMessage(r.error))
                  /\ UNCHANGED <<files, rendered, ms_options, selected_dropbox_files>>
    /\ UNCHANGED <<ver, event, cwd, folders, uploaded_files, locals, logs>>

ListFilesV2 ==
    /\ pc = "top"
    /\ ver = 2
    /\ \E size \in 1..MaxPageSize, kind \in ErrorKinds :
       \E failAt \in 0..Len(files_list_folder(TARGET_FOLDER, FALSE, size)) :
          LET r == list_dropbox_files_v2(TARGET_FOLDER, size, failAt, kind)
          IN IF ~r.ok
             THEN /\ Stop(ListErrorMessage(r.error))
                  /\ UNCHANGED <<files, rendered, ms_options, selected_dropbox_files>>
             ELSE IF r.value = <<>>
             THEN /\ Stop("error: no files found")
                  /\ UNCHANGED <<files, rendered, ms_options, selected_dropbox_files>>
             ELSE /\ files' = r.value
                  /\ RenderSelection(r.value)
                  /\ rendered' = rendered \cup {"multiselect", "start"}
                  /\ pc' = "run"
                  /\ UNCHANGED messages
    /\ UNCHANGED <<ver, event, cwd, folders, uploaded_files, locals, logs>>

\* ------------------------------------------------------------------------
\* Step 2: the run started by "Start Processing"
\* ------------------------------------------------------------------------
\* app_streamlit_3: if run_clicked: ... if selected_dropbox_files: download
RunClicked ==
    /\ pc = "run"
    /\ ver = 3
    /\ IF event.kind # "start" THEN /\ pc' = "done"
                                    /\ UNCHANGED messages
       ELSE IF selected_dropbox_files # <<>>
       THEN /\ pc' = "download"
            /\ messages' = messages \cup {"info: downloading"}
       ELSE /\ pc' = "combine"
            /\ UNCHANGED messages
    /\ UNCHANGED <<ver, event, cwd, folders, files, rendered, widgets, locals, logs>>

\* app_streamlit_2: if st.button("Start Processing") and selected_files:
RunClickedV2 ==
    /\ pc = "run"
    /\ ver = 2
    /\ IF event.kind = "start" /\ selected_dropbox_files # <<>>
       THEN /\ pc' = "download"
            /\ messages' = messages \cup {"info: downloading"}
       ELSE /\ pc' = "done"
            /\ UNCHANGED messages
    /\ UNCHANGED <<ver, event, cwd, folders, files, rendered, widgets, locals, logs>>

NumSelectedListed == Cardinality({i \in 1..Len(files) : files[i][1] \in Range(selected_dropbox_files)})

Download ==
    /\ pc = "download"
    /\ \E failAt \in 0..NumSelectedListed, kind \in ErrorKinds :
          LET r == download_dropbox_files(files, selected_dropbox_files, failAt, kind)
          IN IF r.ok
             THEN /\ combined_inputs' = r.value
                  /\ downloads' = Len(r.value)
                  /\ pc' = (IF ver = 3 THEN "combine" ELSE "read_prompt")
                  /\ UNCHANGED messages
             ELSE /\ Stop(DownloadErrorMessage(r.error))
                  /\ downloads' = failAt
                  /\ UNCHANGED combined_inputs
    /\ UNCHANGED <<ver, event, cwd, folders, files, rendered, widgets, base_prompt, results,
          idx, syllabus_text, full_prompt, output, progress, buf, requests, extractions,
          prompt_reads>>

\* uploads appended after the downloads, then the empty check
Combine ==
    /\ pc = "combine"
    /\ LET all == combined_inputs \o uploaded_files
       IN /\ combined_inputs' = all
          /\ IF all = <<>> THEN Stop("warning: empty selection")
             ELSE /\ pc' = "read_prompt"
                  /\ UNCHANGED messages
    /\ UNCHANGED <<ver, event, cwd, folders, files, rendered, widgets, base_prompt, results,
          idx, syllabus_text, full_prompt, output, progress, buf, logs>>

\* base_prompt = read_txt(PROMPT_PATH); results = []; progress = st.progress(0)
ReadPrompt ==
    /\ pc = "read_prompt"
    /\ prompt_reads' = prompt_reads + 1
    /\ \/ \E text \in PromptFiles :
             /\ base_prompt' = text
             /\ pc' = "loop"
             /\ messages' = messages \cup {"info: processing"}
       \/ /\ Stop("error: prompt file missing")
          /\ UNCHANGED base_prompt
       \/ /\ Stop("exception")
          /\ UNCHANGED base_prompt
    /\ UNCHANGED <<ver, event, cwd, folders, files, rendered, widgets, combined_inputs, results,
          idx, syllabus_text, full_prompt, output, progress, buf, requests, downloads,
          extractions>>

ExtractorFor(name) == IF UsesDocxExtractor(name) THEN "docx" ELSE "pdf"

ExtractWith(extractor, content) == IF extractor = "docx"
    THEN extract_text_from_docx_bytes(content)
    ELSE extract_text_from_pdf_bytes(content)

\* loop body up to full_prompt: dispatch on the suffix, extract, assemble
ExtractItem ==
    /\ pc = "loop"
    /\ idx < Len(combined_inputs)
    /\ LET name == combined_inputs[idx + 1].name
           content == combined_inputs[idx + 1].content
           r == ExtractWith(ExtractorFor(name), content)
       IN /\ extractions' = Append(extractions, [name |-> name, extractor |-> ExtractorFor(name)])
          /\ IF r.ok
             THEN /\ syllabus_text' = r.value
                  /\ full_prompt' = BuildPrompt(base_prompt, r.value)
                  /\ pc' = "ask"
                  /\ UNCHANGED messages
             ELSE /\ Stop("exception")
                  /\ UNCHANGED <<syllabus_text, full_prompt>>
    /\ UNCHANGED <<ver, event, cwd, folders, files, rendered, widgets, combined_inputs,
          base_prompt, results, idx, output, progress, buf, requests, downloads, prompt_reads>>

\* ask_gpt: the request leaves
AskGpt ==
    /\ pc = "ask"
    /\ requests' = Append(requests, full_prompt)
    /\ pc' = "wait"
    /\ UNCHANGED <<ver, event, cwd, folders, files, rendered, messages, widgets, locals,
          downloads, extractions, prompt_reads>>

\* variant: the call wrapped in try/except, a failed request yields an empty output
GptReturn_Swallow ==
    /\ pc = "wait"
    /\ \/ \E o \in Outputs :
             /\ output' = o
             /\ UNCHANGED messages
       \/ /\ output' = <<>>
          /\ messages' = messages \cup {"exception"}
    /\ pc' = "append"
    /\ UNCHANGED <<ver, event, cwd, folders, files, rendered, widgets, combined_inputs,
          base_prompt, results, idx, syllabus_text, full_prompt, progress, buf, logs>>

\* ask_gpt: the service answers, or the call raises
GptReturn ==
    /\ pc = "wait"
    /\ \/ \E o \in Outputs :
             /\ output' = o
             /\ pc' = "append"
             /\ UNCHANGED messages
       \/ /\ Stop("exception")
          /\ UNCHANGED output
    /\ UNCHANGED <<ver, event, cwd, folders, files, rendered, widgets, combined_inputs,
          base_prompt, results, idx, syllabus_text, full_prompt, progress, buf, logs>>

\* results.append((name, output)); progress.progress((idx + 1) / len(combined_inputs))
AppendResult ==
    /\ pc = "append"
    /\ results' = Append(results, <<combined_inputs[idx + 1].name, output>>)
    /\ progress' = <<idx + 1, Len(combined_inputs)>>
    /\ idx' = idx + 1
    /\ pc' = "loop"
    /\ UNCHANGED <<ver, event, cwd, folders, files, rendered, messages, widgets,
          combined_inputs, base_prompt, syllabus_text, full_prompt, output, buf, logs>>

\* after the loop: buf = write_output_to_word(results); st.download_button(..., data=buf)
Deliver ==
    /\ pc = "loop"
    /\ idx >= Len(combined_inputs)
    /\ buf' = write_output_to_word(results)
    /\ messages' = messages \cup {"success"}
    /\ rendered' = rendered \cup {"download_button"}
    /\ pc' = "done"
    /\ UNCHANGED <<ver, event, cwd, folders, files, widgets, combined_inputs, base_prompt,
          results, idx, syllabus_text, full_prompt, output, progress, logs>>

Next ==
    \/ ClickGo
    \/ ClickOpenSelected
    \/ PickFiles
    \/ UploadFiles
    \/ ClickStart
    \/ GoHandler
    \/ ListFolders
    \/ OpenSelectedHandler
    \/ ListFiles
    \/ ListFilesV2
    \/ RunClicked
    \/ RunClickedV2
    \/ Download
    \/ Combine
    \/ ReadPrompt
    \/ ExtractItem
    \/ AskGpt
    \/ GptReturn
    \/ AppendResult
    \/ Deliver

Spec == Init /\ [][Next]_vars

TypeOK ==
    /\ ver \in {2, 3}
    /\ pc \in {"top", "list_folders", "open", "list_files", "run", "download", "combine",
               "read_prompt", "loop", "ask", "wait", "append", "done", "stopped"}
    /\ idx \in 0..Len(combined_inputs)
    /\ Len(results) <= Len(combined_inputs)

\* ------------------------------------------------------------------------
\* Properties
\* ------------------------------------------------------------------------
IsStripOf(t, base) == \E i \in 1..Len(base) + 1, j \in 0..Len(base) :
    /\ t = SubSeq(base, i, j)
    /\ \A k \in 1..Len(base) : (k < i \/ k > j) => base[k] \in Whitespace
    /\ t # <<>> => (t[1] \notin Whitespace /\ t[Len(t)] \notin Whitespace)

\* the readable text of a document: paragraphs joined by newlines, pages concatenated
SyllabusTextOf(content) == IF content.fmt = "docx" THEN Join(<<"\n">>, content.parts)
    ELSE Concat(content.parts)

PromptCarries(req, doc) == \E n \in 0..Len(base_prompt) :
    /\ n <= Len(req)
    /\ IsStripOf(SubSeq(req, 1, n), base_prompt)
    /\ req = SubSeq(req, 1, n) \o PromptSeparator \o SyllabusTextOf(doc.content)

RunCompleted == "success" \in messages

BatchNames == [i \in 1..Len(combined_inputs) |-> combined_inputs[i].name]

\* C1: one generation request per document of the batch, in batch order, each
\* carrying strip(base prompt) + separator + the document's extracted text, and
\* request i+1 leaves only after result i has been appended; a completed run has
\* issued exactly n requests.
C1_OneRequestPerDocumentInOrder ==
    /\ Len(requests) <= Len(combined_inputs)
    /\ Len(results) <= Len(requests)
    /\ Len(requests) <= Len(results) + 1
    /\ pc \in {"loop", "ask"} => Len(requests) = Len(results)
    /\ \A i \in 1..Len(requests) : PromptCarries(requests[i], combined_inputs[i])
    /\ \A i \in 1..Len(results) : results[i][1] = combined_inputs[i].name
    /\ RunCompleted => /\ Len(requests) = Len(combined_inputs)
                       /\ Len(results) = Len(combined_inputs)

C1_Witness ==
    /\ RunCompleted
    /\ Len(requests) >= 2
    /\ base_prompt # Strip(base_prompt)

\* C2: the aggregator emits, for k results, exactly k sections in order: heading
\* "EEQ Output for <name>", the text verbatim, a page break; nothing merged or
\* dropped when names repeat.
C2_AggregatorSections == buf # NoDoc =>
    /\ Len(buf) = 3 * Len(results)
    /\ \A i \in 1..Len(results) :
          /\ buf[3 * i - 2] = [kind |-> "heading", level |-> 1,
                               text |-> HeadingPrefix \o results[i][1]]
          /\ buf[3 * i - 1] = [kind |-> "paragraph", level |-> 0, text |-> results[i][2]]
          /\ buf[3 * i].kind = "page_break"

C2_Witness ==
    /\ buf # NoDoc
    /\ Len(results) >= 2
    /\ results[1][1] = results[2][1]
    /\ results[1][2] # results[2][2]

RunFailureMessages == {"error: authentication (download)", "error: api (download)",
    "error: download", "error: prompt file missing", "exception"}

RunFailed == messages \cap RunFailureMessages # {}

\* C3: once a step of a run has failed the pass is stopped, nothing is aggregated
\* or offered for download, and the only thing that can follow is a new pass that
\* starts from nothing (results so far are gone).
C3_FailureStopsRun ==
    /\ [](RunFailed => /\ pc = "stopped"
                       /\ buf = NoDoc
                       /\ "download_button" \notin rendered)
    /\ [][RunFailed => /\ pc' = "top"
                       /\ results' = <<>>
                       /\ requests' = <<>>
                       /\ extractions' = <<>>]_vars

C3_Witness ==
    /\ RunFailed
    /\ pc = "stopped"
    /\ Len(results) >= 1

EmptyStartHandled ==
    /\ AtRest
    /\ event.kind = "start"
    /\ "start" \in rendered
    /\ selected_dropbox_files = <<>>
    /\ uploaded_files = <<>>

\* C4: a start with nothing selected and nothing uploaded reports the
\* empty-selection warning and does nothing else.
C4_EmptyStartWarns == EmptyStartHandled =>
    /\ "warning: empty selection" \in messages
    /\ downloads = 0
    /\ prompt_reads = 0
    /\ extractions = <<>>
    /\ requests = <<>>

AuthListingFailed == "error: authentication" \in messages

\* C5: an authentication failure while listing stops the pass: no selection
\* widget, start button or download is offered, no listing (not even a partial
\* one) is kept, nothing is downloaded, extracted or generated, and only a new
\* pass can follow.
C5_AuthFailureStopsSession ==
    /\ [](AuthListingFailed =>
            /\ pc = "stopped"
            /\ rendered \cap {"multiselect", "uploader", "start", "download_button"} = {}
            /\ files = <<>>
            /\ "open" \notin rendered => folders = <<>>
            /\ downloads = 0
            /\ prompt_reads = 0
            /\ extractions = <<>>
            /\ requests = <<>>
            /\ buf = NoDoc)
    /\ [][AuthListingFailed => (pc' = "top" /\ messages' = {})]_vars

C5_Witness ==
    /\ AuthListingFailed
    /\ "open" \in rendered
    /\ event.kind = "start"
    /\ selected_dropbox_files # <<>>

BatchAssembled ==
    \/ pc \in {"read_prompt", "loop", "ask", "wait", "append"}
    \/ RunCompleted

UploadNames == [i \in 1..Len(uploaded_files) |-> uploaded_files[i].name]

SelectedInListingOrder == SelectSeq(ms_options, LAMBDA n : n \in Range(selected_dropbox_files))

\* C6 as stated: the batch is the remote documents in the order the operator
\* selected them, then the uploads.
C6_BatchInSelectionOrder == BatchAssembled =>
    BatchNames = selected_dropbox_files \o UploadNames

SortedByLowerName(ns) == \A i \in 1..Len(ns) - 1 : ~StrLess(Lower(ns[i + 1]), Lower(ns[i]))

\* C6 amended: the batch is the selected remote documents in the order of the
\* file listing (ascending by lower-cased name in app_streamlit_3), whatever the
\* order they were selected in, then the uploads in upload order; results and
\* output sections follow the batch order.
C6_BatchInListingOrder ==
    /\ BatchAssembled => BatchNames = SelectedInListingOrder \o UploadNames
    /\ (BatchAssembled /\ ver = 3) => SortedByLowerName(ms_options)
    /\ RunCompleted =>
          /\ [i \in 1..Len(results) |-> results[i][1]] = BatchNames
          /\ \A i \in 1..Len(BatchNames) : buf[3 * i - 2].text = HeadingPrefix \o BatchNames[i]

C6_Witness ==
    /\ RunCompleted
    /\ Len(selected_dropbox_files) >= 2
    /\ selected_dropbox_files # SelectedInListingOrder
    /\ uploaded_files # <<>>

EntrySet == Range(DropboxEntries)

ChildrenOf(api_path) == {e \in EntrySet : e.parent = Lower(api_path)}

Tuple(e) == <<e.name, e.path_lower>>

\* C7 as stated: the folder listing holds only entries of kind Folder, children
\* of the path, from all pages, sorted by lower-cased name.
C7_OnlyFolders == pc = "open" =>
    /\ Range(folders) = {Tuple(e) : e \in {c \in ChildrenOf(to_api_path(cwd)) : c.tag = "folder"}}
    /\ SortedByLowerName(Names(folders))

ShownAsFolder(e) ==
    \/ e.tag = "folder"
    \/ e.tag = "file" /\ ~e.is_downloadable

\* C7 amended: the folder listing holds exactly the children of the path, from
\* all pages and from no deeper level, that are folders or files flagged not
\* downloadable, each once, sorted ascending by lower-cased name.
C7_FolderListing == pc = "open" =>
    /\ Range(folders) = {Tuple(e) : e \in {c \in ChildrenOf(to_api_path(cwd)) : ShownAsFolder(c)}}
    /\ Len(folders) = Cardinality({c \in ChildrenOf(to_api_path(cwd)) : ShownAsFolder(c)})
    /\ SortedByLowerName(Names(folders))

C7_Witness ==
    /\ pc = "open"
    /\ cwd = <<"/">>
    /\ Len(folders) = 4
    /\ \E i \in 1..Len(folders) : folders[i][1] = <<"g", ".", "g", "d", "o", "c">>

\* C8: every document handed to an extractor has a .pdf or .docx name, the docx
\* extractor only gets .docx names and the pdf extractor only .pdf names.
C8_SuffixDispatch == \A i \in 1..Len(extractions) :
    LET n == Lower(extractions[i].name)
    IN /\ EndsWith(n, PdfSuffix) \/ EndsWith(n, DocxSuffix)
       /\ extractions[i].extractor = "docx" => EndsWith(n, DocxSuffix)
       /\ extractions[i].extractor = "pdf" => EndsWith(n, PdfSuffix)

\* C9: the stored current path is never the provider's root "".
C9_RootNeverStoredTranslated == cwd # <<>>

Segments(path) == SelectSeq(Split(path, "/"), LAMBDA seg : seg # <<>>)

RECURSIVE Rooted(_)
Rooted(segs) == IF segs = <<>> THEN <<>> ELSE <<"/">> \o Head(segs) \o Rooted(Tail(segs))

ParentPath(path) == IF Len(Segments(path)) <= 1 THEN <<"/">>
    ELSE Rooted(SubSeq(Segments(path), 1, Len(Segments(path)) - 1))

\* C10: "Open selected" on ".." moves to the parent path, and on a listed folder
\* sets the current path to exactly that folder's listed path.
C10_OpenSelectedTarget == [][(pc = "open" /\ event.kind = "open") =>
    IF event.arg = ParentOption THEN cwd' = ParentPath(cwd)
    ELSE \E i \in 1..Len(folders) : /\ event.arg = OptionOf(folders[i])
                                    /\ cwd' = folders[i][2]]_vars

====
